---- MODULE Spec2Model ----
\* A model of the planner command-line task tracker (src/src/main.rs).
\* The persisted file planner.json is the only state that survives an
\* invocation; every command is one load / mutate / save cycle over it.
EXTENDS Integers, Sequences, FiniteSets, TLC

\* ---------------------------------------------------------------- bounds

\* Largest number of tasks the store may hold (add is not issued beyond it).
MaxTasks == 3
\* Timestamps are the instants 1..MaxTime.
MaxTime == 1
\* Largest task list fit_task_size_to_children is applied to on its own.
FitLen == 2
\* The instants 1..FitTime are the timestamps of those lists.
FitTime == 2
LeafTasks == 4
RaceTasks == 2

\* Option::None, for Option<usize> and Option<DateTime<Local>> alike.
None == 0 - 1
\* A date string that NaiveDateTime::parse_from_str rejects.
BadDate == 0

\* Task names given on the command line; clap accepts the empty string.
Names == {"", "a"}
\* Ids given on the command line; MaxTasks is never the id of a stored task.
ArgIds == 0 .. MaxTasks
\* Values of --due-date / --start-time: absent, unparsable, or an instant.
DateArgs == {None, BadDate} \cup (1 .. MaxTime)

\* ---------------------------------------------------------------- state

VARIABLES
    meta_exists,   \* planner.json exists in the working directory
    planner_json,  \* its content: TaskList.tasks, a sequence of Task records
    last,          \* the last invocation: command, arguments and how it ended
    loaded,        \* the task list the last invocation started from
    task_tree,     \* the forest the last invocation built (list)
    stdout,        \* the tasks it printed: the node's id, the id shown, the indent
    procs          \* two invocations running at once: their task_list and position

vars == <<meta_exists, planner_json, last, loaded, task_tree, stdout, procs>>

\* struct Task, less points and resources (no command's control flow or
\* stored result depends on them).
Task(id, name, complete, due_date, start_time, parent) ==
    [id |-> id, name |-> name, complete |-> complete,
     due_date |-> due_date, start_time |-> start_time, parent |-> parent]

\* How an invocation ends: normal return (status 0), exit(1), a panic
\* (status 101), or never (a loop that does not end).
Ok == "ok"
Exit1 == "exit1"
Panic == "panic"
Hang == "hang"

Last(cmd, id, parent, how, msg) ==
    [cmd |-> cmd, id |-> id, parent |-> parent, how |-> how, msg |-> msg]

\* The two processes of an overlapping pair of invocations, and one of them
\* before it has started: pc is where it stands (idle, loaded: past
\* get_task_list, done), task_list its local variable, turn whether it ended
\* first or second, overlap whether both had loaded before either ended.
Procs == 1 .. 2
Idle ==
    [pc |-> "idle", cmd |-> "none", id |-> None, parent |-> None,
     task_list |-> <<>>, how |-> Ok, msg |-> "", wrote |-> FALSE,
     turn |-> 0, overlap |-> FALSE]

\* ---------------------------------------------------------------- helpers

\* The positions (0-based, as in the source) of a task list.
Positions(tl) == 0 .. (Len(tl) - 1)
\* tasklist.tasks[i] with a 0-based i.
At(tl, i) == tl[i + 1]

HasId(tl, id) == \E i \in Positions(tl) : At(tl, i).id = id

get_all_children_of_task(tl, parent) ==
    SelectSeq(tl, LAMBDA t : t.parent # None /\ t.parent = parent)

\* The first position holding id, or None.
FirstPos(tl, id) ==
    IF HasId(tl, id)
    THEN CHOOSE i \in Positions(tl) :
            /\ At(tl, i).id = id
            /\ \A j \in Positions(tl) : At(tl, j).id = id => i <= j
    ELSE None

\* Looks the task up by id, then asks for the children of its POSITION.
task_has_children(tl, id) ==
    LET i == FirstPos(tl, id)
    IN  IF i = None THEN FALSE
        ELSE Len(get_all_children_of_task(tl, i)) > 0

\* The write-back loops of fit_task_size_to_children (lines 185-190, 205-210).
SetDates(tl, id, start_time, end_time) ==
    [j \in 1 .. Len(tl) |->
        IF tl[j].id = id
        THEN [tl[j] EXCEPT !.start_time = start_time, !.due_date = end_time]
        ELSE tl[j]]

\* if let Some(x) = d { if acc == None || x < acc.unwrap() { acc = Some(x) } }
MinOpt(acc, d) == IF d # None /\ (acc = None \/ d < acc) THEN d ELSE acc
MaxOpt(acc, d) == IF d # None /\ (acc = None \/ d > acc) THEN d ELSE acc

RECURSIVE fit_task_size_to_children(_, _)
RECURSIVE FitLoop(_, _, _, _, _)

RECURSIVE FitLoopStale(_, _, _, _, _)
\* FitLoop, had line 184 dropped its result: the child is refitted and
\* written back, and the parent combines the dates cloned before that.
FitLoopStale(tl, children, i, start_time, end_time) ==
    IF i > Len(children)
    THEN [tasks |-> tl, start_time |-> start_time, end_time |-> end_time]
    ELSE LET c == children[i]
             rec == task_has_children(tl, c.id)
             sub == fit_task_size_to_children(tl, c.id)
             tl2 == IF rec
                    THEN SetDates(sub.tasks, c.id, sub.start_time, sub.end_time)
                    ELSE tl
         IN  FitLoopStale(tl2, children, i + 1,
                          MinOpt(start_time, c.start_time),
                          MaxOpt(end_time, c.due_date))

\* The for loop over the cloned children (lines 180-203), from child i on.
FitLoop(tl, children, i, start_time, end_time) ==
    IF i > Len(children)
    THEN [tasks |-> tl, start_time |-> start_time, end_time |-> end_time]
    ELSE LET c == children[i]
             rec == task_has_children(tl, c.id)
             sub == fit_task_size_to_children(tl, c.id)
             d0 == IF rec THEN sub.start_time ELSE c.start_time
             d1 == IF rec THEN sub.end_time ELSE c.due_date
             tl2 == IF rec THEN SetDates(sub.tasks, c.id, d0, d1) ELSE tl
         IN  FitLoop(tl2, children, i + 1,
                     MinOpt(start_time, d0), MaxOpt(end_time, d1))

fit_task_size_to_children(tl, id) ==
    LET r == FitLoop(tl, get_all_children_of_task(tl, id), 1, None, None)
    IN  [tasks |-> SetDates(r.tasks, id, r.start_time, r.end_time),
         start_time |-> r.start_time, end_time |-> r.end_time]

\* ---------------------------------------------------------------- tree

TaskTreeNode(task, children) == [task |-> task, children |-> children]

\* FindNode, had it taken the parent id for the index of the parent's node.
FindNodeByPos(tree, parent) ==
    IF parent = None THEN 0
    ELSE IF parent + 1 \in Positions(tree) THEN parent + 1
    ELSE None

\* FindNode, had it hung a task whose parent no node holds under the root.
FindNodeOrRoot(tree, parent) ==
    IF \E i \in Positions(tree) : At(tree, i).task = parent
    THEN CHOOSE i \in Positions(tree) :
            /\ At(tree, i).task = parent
            /\ \A j \in Positions(tree) : At(tree, j).task = parent => i <= j
    ELSE 0

\* The position (0-based) of the first node whose task equals parent, or None.
FindNode(tree, parent) ==
    IF \E i \in Positions(tree) : At(tree, i).task = parent
    THEN CHOOSE i \in Positions(tree) :
            /\ At(tree, i).task = parent
            /\ \A j \in Positions(tree) : At(tree, j).task = parent => i <= j
    ELSE None

RECURSIVE TreeLoop(_, _, _, _)
\* The loop of generate_task_tree (lines 273-300). misses counts the
\* iterations since the last placement: after Len(queue) of them the queue
\* and the tree are what they were, so the loop never ends.
TreeLoop(tl, tree, queue, misses) ==
    IF Len(queue) = 0 THEN [tree |-> tree, how |-> Ok]
    ELSE IF misses >= Len(queue) THEN [tree |-> tree, how |-> Hang]
    ELSE LET t == queue[Len(queue)]
             rest == SubSeq(queue, 1, Len(queue) - 1)
             i == FindNode(tree, At(tl, t).parent)
         IN  IF i # None
             THEN LET l == Len(tree)
                      grown == [tree EXCEPT ![i + 1].children = Append(@, l)]
                  IN  TreeLoop(tl,
                               Append(grown, TaskTreeNode(At(tl, t).id, <<>>)),
                               rest, 0)
             ELSE TreeLoop(tl, tree, <<t>> \o rest, misses + 1)

generate_task_tree(tl) ==
    TreeLoop(tl, <<TaskTreeNode(None, <<>>)>>,
             [k \in 1 .. Len(tl) |-> k - 1], 0)

RECURSIVE print_task_tree(_, _, _, _, _)
RECURSIVE PrintChildren(_, _, _, _, _, _)

\* print_task prints tasklist.tasks[x], x being the ID the node holds; the
\* index panics when x is no position. out is what was printed so far. (depth
\* is a u8; it stays far below 255 within MaxTasks.)
print_task_tree(tl, tree, depth, idx, out) ==
    LET r == At(tree, idx)
        bad == r.task # None /\ r.task >= Len(tl)
        out2 == IF r.task # None /\ ~bad
                THEN Append(out.lines, [node |-> r.task,
                                        id |-> At(tl, r.task).id,
                                        indent |-> depth])
                ELSE out.lines
        depth_add == IF r.task # None THEN 1 ELSE 0
    IN  IF out.how # Ok THEN out
        ELSE IF bad THEN [lines |-> out.lines, how |-> Panic]
        ELSE PrintChildren(tl, tree, depth + depth_add, r.children, 1,
                           [lines |-> out2, how |-> Ok])

PrintChildren(tl, tree, depth, children, k, out) ==
    IF k > Len(children) \/ out.how # Ok THEN out
    ELSE PrintChildren(tl, tree, depth, children, k + 1,
                       print_task_tree(tl, tree, depth, children[k], out))

\* ---------------------------------------------------------------- commands

\* IdScan, had add numbered the new task by the length of the list.
IdByLen(tl, id) == Len(tl)

\* IdScan, had add numbered the new task one past the largest id in use.
IdAfterMax(tl, id) ==
    IF Len(tl) = 0 THEN id
    ELSE 1 + (CHOOSE m \in {tl[j].id : j \in 1 .. Len(tl)} :
                \A j \in 1 .. Len(tl) : tl[j].id <= m)

\* The id scan of add (lines 348-365): count up from 0 until unused.
RECURSIVE IdScan(_, _)
IdScan(tl, id) == IF HasId(tl, id) THEN IdScan(tl, id + 1) ELSE id

\* The ancestor walk of add (lines 426-433). actual_id is used as a POSITION.
\* seen holds the values actual_id took: taking one again repeats for ever.
RECURSIVE AncestorWalk(_, _, _)
AncestorWalk(tl, actual_id, seen) ==
    IF actual_id >= Len(tl) THEN [how |-> Panic, id |-> actual_id]
    ELSE IF At(tl, actual_id).parent = None THEN [how |-> Ok, id |-> actual_id]
    ELSE IF At(tl, actual_id).parent \in seen
         THEN [how |-> Hang, id |-> actual_id]
    ELSE AncestorWalk(tl, At(tl, actual_id).parent,
                      seen \cup {At(tl, actual_id).parent})

\* How an invocation ends. written is the task list saved to planner.json,
\* or the loaded one when the invocation ends before its fs::write.
Ends(cmd, id, parent, how, msg, written, built, printed) ==
    /\ last' = Last(cmd, id, parent, how, msg)
    /\ loaded' = planner_json
    /\ planner_json' = written
    /\ task_tree' = built
    /\ stdout' = printed
    /\ UNCHANGED <<meta_exists, procs>>

\* get_task_list exits with 1 when planner.json does not exist.
NoMeta(cmd, id, parent) ==
    /\ ~meta_exists
    /\ Ends(cmd, id, parent, Exit1, "no meta file", planner_json, <<>>, <<>>)

CmdInit ==
    /\ meta_exists' = TRUE
    /\ planner_json' = <<>>
    /\ last' = Last("init", None, None, Ok, "initialized")
    /\ loaded' = <<>>
    /\ task_tree' = <<>>
    /\ stdout' = <<>>
    /\ UNCHANGED procs

\* AddOutcome, had add not looked the parent id up (lines 379-392).
AddOutcomeAnyParent(tl, taskname, due_date, start_time, parent_id) ==
    LET id == IdScan(tl, 0)
        new_task == Task(id, taskname, FALSE, due_date, start_time, parent_id)
        pushed == Append(tl, new_task)
        walk == AncestorWalk(pushed, parent_id, {parent_id})
        out(how, msg, written) ==
            [id |-> id, how |-> how, msg |-> msg, tasks |-> written]
    IN  IF due_date = BadDate \/ start_time = BadDate
        THEN out(Panic, "bad date", tl)
        ELSE IF parent_id = None
        THEN out(Ok, "Added task", pushed)
        ELSE IF walk.how # Ok
        THEN out(walk.how, "Added task", tl)
        ELSE out(Ok, "Added task",
                 fit_task_size_to_children(pushed, walk.id).tasks)

\* What add leaves in planner.json and how it ends.
AddOutcome(tl, taskname, due_date, start_time, parent_id) ==
    LET id == IdScan(tl, 0)
        new_task == Task(id, taskname, FALSE, due_date, start_time, parent_id)
        pushed == Append(tl, new_task)
        walk == AncestorWalk(pushed, parent_id, {parent_id})
        out(how, msg, written) ==
            [id |-> id, how |-> how, msg |-> msg, tasks |-> written]
    IN  IF due_date = BadDate \/ start_time = BadDate
        THEN out(Panic, "bad date", tl)
        ELSE IF parent_id # None /\ ~HasId(tl, parent_id)
        THEN out(Exit1, "Invalid parent id!", tl)
        ELSE IF parent_id = None
        THEN out(Ok, "Added task", pushed)
        ELSE IF walk.how # Ok
        THEN out(walk.how, "Added task", tl)
        ELSE out(Ok, "Added task",
                 fit_task_size_to_children(pushed, walk.id).tasks)

CmdAdd(taskname, due_date, start_time, parent_id) ==
    LET r == AddOutcome(planner_json, taskname, due_date, start_time, parent_id)
    IN  \/ NoMeta("add", None, parent_id)
        \/ /\ meta_exists
           /\ Len(planner_json) < MaxTasks
           /\ Ends("add", r.id, parent_id, r.how, r.msg, r.tasks, <<>>, <<>>)

\* Orphaned, had rm left the children of task_id their parent id.
OrphanedNot(tl, task_id) == tl

\* Rm's first loop (lines 444-450): children of task_id become roots.
Orphaned(tl, task_id) ==
    [j \in 1 .. Len(tl) |->
        IF tl[j].parent # None /\ tl[j].parent = task_id
        THEN [tl[j] EXCEPT !.parent = None] ELSE tl[j]]

\* Vec::remove at 0-based position i.
Remove(tl, i) == SubSeq(tl, 1, i) \o SubSeq(tl, i + 2, Len(tl))

\* What rm leaves in planner.json and what it reports. The name of the
\* task found doubles as the found flag.
RmOutcome(tl, task_id) ==
    LET orphaned == Orphaned(tl, task_id)
        i == FirstPos(orphaned, task_id)
        name == IF i = None THEN "" ELSE At(orphaned, i).name
    IN  IF name = ""
        THEN [msg |-> "Task not found", tasks |-> tl]
        ELSE [msg |-> "Removed task", tasks |-> Remove(orphaned, i)]

CmdRm(task_id) ==
    LET r == RmOutcome(planner_json, task_id)
    IN  \/ NoMeta("rm", task_id, None)
        \/ /\ meta_exists
           /\ Ends("rm", task_id, None, Ok, r.msg, r.tasks, <<>>, <<>>)

\* CheckOutcome, had check ended with exit(1) on a task it does not find.
CheckOutcomeHardNotFound(tl, task_id) ==
    LET children == get_all_children_of_task(tl, task_id)
        cancomplete == \A k \in 1 .. Len(children) : children[k].complete
        i == FirstPos(tl, task_id)
        name == IF i = None THEN "" ELSE At(tl, i).name
    IN  IF ~cancomplete
        THEN [how |-> Exit1, msg |-> "Cannot complete task", tasks |-> tl]
        ELSE IF name = ""
        THEN [how |-> Exit1, msg |-> "Task not found", tasks |-> tl]
        ELSE [how |-> Ok, msg |-> "Checked off task",
              tasks |-> [tl EXCEPT ![i + 1].complete = TRUE]]

\* CheckOutcome, had check flipped the flag instead of setting it.
CheckOutcomeToggle(tl, task_id) ==
    LET children == get_all_children_of_task(tl, task_id)
        cancomplete == \A k \in 1 .. Len(children) : children[k].complete
        i == FirstPos(tl, task_id)
        name == IF i = None THEN "" ELSE At(tl, i).name
    IN  IF ~cancomplete
        THEN [how |-> Exit1, msg |-> "Cannot complete task", tasks |-> tl]
        ELSE IF name = ""
        THEN [how |-> Ok, msg |-> "Task not found", tasks |-> tl]
        ELSE [how |-> Ok, msg |-> "Checked off task",
              tasks |-> [tl EXCEPT ![i + 1].complete = ~At(tl, i).complete]]

\* CheckOutcome, had check not looked at the children (lines 475-489).
CheckOutcomeNoGate(tl, task_id) ==
    LET i == FirstPos(tl, task_id)
        name == IF i = None THEN "" ELSE At(tl, i).name
    IN  IF name = ""
        THEN [how |-> Ok, msg |-> "Task not found", tasks |-> tl]
        ELSE [how |-> Ok, msg |-> "Checked off task",
              tasks |-> [tl EXCEPT ![i + 1].complete = TRUE]]

\* What check leaves in planner.json and how it ends.
CheckOutcome(tl, task_id) ==
    LET children == get_all_children_of_task(tl, task_id)
        cancomplete == \A k \in 1 .. Len(children) : children[k].complete
        i == FirstPos(tl, task_id)
        name == IF i = None THEN "" ELSE At(tl, i).name
    IN  IF ~cancomplete
        THEN [how |-> Exit1, msg |-> "Cannot complete task", tasks |-> tl]
        ELSE IF name = ""
        THEN [how |-> Ok, msg |-> "Task not found", tasks |-> tl]
        ELSE [how |-> Ok, msg |-> "Checked off task",
              tasks |-> [tl EXCEPT ![i + 1].complete = TRUE]]

CmdCheck(task_id) ==
    LET r == CheckOutcome(planner_json, task_id)
    IN  \/ NoMeta("check", task_id, None)
        \/ /\ meta_exists
           /\ Ends("check", task_id, None, r.how, r.msg, r.tasks, <<>>, <<>>)

\* What list builds and prints and how it ends.
ListOutcome(tl) ==
    LET built == generate_task_tree(tl)
        shown == print_task_tree(tl, built.tree, 1, 0,
                                 [lines |-> <<>>, how |-> Ok])
    IN  IF Len(tl) = 0
        THEN [how |-> Ok, msg |-> "No tasks added", tree |-> <<>>, lines |-> <<>>]
        ELSE IF built.how # Ok
        THEN [how |-> built.how, msg |-> "Tasks:", tree |-> <<>>, lines |-> <<>>]
        ELSE [how |-> shown.how, msg |-> "Tasks:", tree |-> built.tree,
              lines |-> shown.lines]

CmdList ==
    LET r == ListOutcome(planner_json)
    IN  \/ NoMeta("list", None, None)
        \/ /\ meta_exists
           /\ Ends("list", None, None, r.how, r.msg, planner_json, r.tree, r.lines)

Init ==
    /\ meta_exists = FALSE
    /\ planner_json = <<>>
    /\ last = Last("none", None, None, Ok, "")
    /\ loaded = <<>>
    /\ task_tree = <<>>
    /\ stdout = <<>>
    /\ procs = [p \in Procs |-> Idle]

\* One invocation, its arguments drawn from the given names and dates.
Invoke(names, dates) ==
    \/ CmdInit
    \/ \E taskname \in names, due_date \in dates, start_time \in dates,
          parent_id \in {None} \cup ArgIds :
            CmdAdd(taskname, due_date, start_time, parent_id)
    \/ \E task_id \in ArgIds : CmdRm(task_id)
    \/ \E task_id \in ArgIds : CmdCheck(task_id)
    \/ CmdList

\* Named tasks without timestamps: ids, parent links and complete flags.
Next == Invoke({"a"}, {None})
Spec == Init /\ [][Next]_vars

\* Every name, the empty one included: what rm and check report and save.
NextNames == Invoke(Names, {None})
SpecNames == Init /\ [][NextNames]_vars

\* Every timestamp: what the fitting of windows does to the store.
NextDates == Invoke({"a"}, DateArgs)
SpecDates == Init /\ [][NextDates]_vars

\* Add with a due date only, on stores of up to LeafTasks tasks: the stores
\* in which a task found at the position of another task's id has a window.
CmdAddDue(due_date, parent_id) ==
    LET r == AddOutcome(planner_json, "a", due_date, None, parent_id)
    IN  \/ NoMeta("add", None, parent_id)
        \/ /\ meta_exists
           /\ Len(planner_json) < LeafTasks
           /\ Ends("add", r.id, parent_id, r.how, r.msg, r.tasks, <<>>, <<>>)

NextLeaf ==
    \/ CmdInit
    \/ \E due_date \in {None} \cup (1 .. MaxTime),
          parent_id \in {None} \cup (0 .. LeafTasks) :
            CmdAddDue(due_date, parent_id)
    \/ \E task_id \in 0 .. LeafTasks : CmdRm(task_id)
SpecLeaf == Init /\ [][NextLeaf]_vars

\* ---------------------------------------------------------------- two at once
\* Two invocations of add, rm or check whose steps interleave: each reads
\* planner.json into its task_list (get_task_list), works on that copy and
\* ends, writing the copy back with fs::write unless it returns or exits
\* before. A read or a write of the file is one step.

\* WorkingCopy, had the invocation worked on the file as it is when it ends.
WorkingCopyFresh(p) == planner_json

\* The task list invocation p works on: what it loaded.
WorkingCopy(p) == procs[p].task_list

\* No invocation is under way.
Quiet == \A p \in Procs : procs[p].pc = "idle"

\* An invocation that runs from its start to its end with no other under way.
Alone == Quiet /\ Next /\ Len(planner_json') <= RaceTasks

\* get_task_list of invocation p of command cmd (without planner.json it ends
\* there, as in NoMeta). From here on procs tells what the invocations did;
\* last and loaded tell it of an invocation that ran alone.
Load(p, cmd, id, parent) ==
    /\ meta_exists
    /\ procs[p].pc = "idle"
    /\ procs' = [procs EXCEPT ![p] =
                    [Idle EXCEPT !.pc = "loaded", !.cmd = cmd, !.id = id,
                                 !.parent = parent, !.task_list = planner_json]]
    /\ last' = Last("none", None, None, Ok, "")
    /\ loaded' = <<>>
    /\ task_tree' = <<>>
    /\ stdout' = <<>>
    /\ UNCHANGED <<meta_exists, planner_json>>

\* The rest of invocation p: the command on its task_list and, when it gets
\* there, fs::write.
Finish(p) ==
    LET me == procs[p]
        other == procs[3 - p]
        tl == WorkingCopy(p)
        added == AddOutcome(tl, "a", None, None, me.parent)
        removed == RmOutcome(tl, me.id)
        checked == CheckOutcome(tl, me.id)
        id == IF me.cmd = "add" THEN added.id ELSE me.id
        how == CASE me.cmd = "add" -> added.how
                 [] me.cmd = "rm" -> Ok
                 [] OTHER -> checked.how
        msg == CASE me.cmd = "add" -> added.msg
                 [] me.cmd = "rm" -> removed.msg
                 [] OTHER -> checked.msg
        wrote == CASE me.cmd = "add" -> added.how = Ok
                   [] me.cmd = "rm" -> removed.msg = "Removed task"
                   [] OTHER -> checked.msg = "Checked off task"
        tasks == CASE me.cmd = "add" -> added.tasks
                   [] me.cmd = "rm" -> removed.tasks
                   [] OTHER -> checked.tasks
        first == other.turn = 0
    IN  /\ me.pc = "loaded"
        /\ planner_json' = IF wrote THEN tasks ELSE planner_json
        /\ procs' = [procs EXCEPT ![p] =
                        [me EXCEPT !.pc = "done", !.id = id, !.how = how,
                                   !.msg = msg, !.wrote = wrote,
                                   !.turn = IF first THEN 1 ELSE 2,
                                   !.overlap = IF first THEN other.pc = "loaded"
                                               ELSE other.overlap]]
        /\ UNCHANGED <<meta_exists, last, loaded, task_tree, stdout>>

NextRace ==
    \/ Alone
    \/ \E p \in Procs, parent_id \in {None} \cup (0 .. RaceTasks) :
            Load(p, "add", None, parent_id)
    \/ \E p \in Procs, task_id \in 0 .. RaceTasks : Load(p, "rm", task_id, None)
    \/ \E p \in Procs, task_id \in 0 .. RaceTasks : Load(p, "check", task_id, None)
    \/ \E p \in Procs : Finish(p)
SpecRace == Init /\ [][NextRace]_vars

\* ---------------------------------------------------------------- functions
\* generate_task_tree and fit_task_size_to_children on their own, applied to
\* every task list within the bounds rather than to the stores add builds.

DistinctIds(tl) ==
    \A i, j \in Positions(tl) : At(tl, i).id = At(tl, j).id => i = j

\* Following parent ids from id ends (at None or at no task) within fuel steps.
RECURSIVE ChainEnds(_, _, _)
ChainEnds(tl, id, fuel) ==
    IF id = None \/ ~HasId(tl, id) THEN TRUE
    ELSE IF fuel = 0 THEN FALSE
    ELSE ChainEnds(tl, At(tl, FirstPos(tl, id)).parent, fuel - 1)

Acyclic(tl) == \A i \in Positions(tl) : ChainEnds(tl, At(tl, i).id, Len(tl))

\* Every parent id is the id of a task of the list.
Resolvable(tl) ==
    \A i \in Positions(tl) : At(tl, i).parent # None => HasId(tl, At(tl, i).parent)

\* The task list with the given ids, parents and timestamps, position by
\* position.
ListOf(ids, parents, dues, starts) ==
    [j \in 1 .. Len(ids) |->
        Task(ids[j], "a", FALSE, dues[j], starts[j], parents[j])]

\* planner_json is any list of at most n tasks with pairwise distinct ids in
\* idset, parents in None and idset and timestamps in dates; when acyclic is
\* set, only the lists whose parent links hold no cycle.
InitOn(n, idset, dates, acyclic) ==
    /\ meta_exists = TRUE
    /\ last = Last("none", None, None, Ok, "")
    /\ loaded = <<>>
    /\ task_tree = <<>>
    /\ stdout = <<>>
    /\ procs = [p \in Procs |-> Idle]
    /\ \E k \in 0 .. n :
         \E ids \in [1 .. k -> idset], parents \in [1 .. k -> {None} \cup idset] :
            LET nodates == [j \in 1 .. k |-> None]
                links == ListOf(ids, parents, nodates, nodates)
            IN  /\ DistinctIds(links)
                /\ acyclic => Acyclic(links)
                /\ \E dues \in [1 .. k -> dates], starts \in [1 .. k -> dates] :
                      planner_json = ListOf(ids, parents, dues, starts)

\* generate_task_tree on the task list, cyclic and dangling parents included.
BuildTree ==
    LET built == generate_task_tree(planner_json)
    IN  /\ last.cmd = "none"
        /\ Ends("tree", None, None, built.how, "", planner_json, built.tree, <<>>)

InitTree == InitOn(MaxTasks, 0 .. MaxTasks, {None}, FALSE)
SpecTree == InitTree /\ [][BuildTree]_vars

\* fit_task_size_to_children(id) on the task list, as often as wanted.
Fit(id) ==
    Ends("fit", id, None, Ok, "",
         fit_task_size_to_children(planner_json, id).tasks, <<>>, <<>>)

InitFit == InitOn(FitLen, 0 .. (FitLen - 1), {None} \cup (1 .. FitTime), TRUE)
NextFit == \E id \in 0 .. (FitLen - 1) : Fit(id)
SpecFit == InitFit /\ [][NextFit]_vars

\* The same on lists one task longer (a grandchild may have siblings or the
\* list a task apart), with the timestamps of the store commands.
InitFitDeep == InitOn(FitLen + 1, 0 .. FitLen, {None} \cup (1 .. MaxTime), TRUE)
NextFitDeep == \E id \in 0 .. FitLen : Fit(id)
SpecFitDeep == InitFitDeep /\ [][NextFitDeep]_vars

\* ---------------------------------------------------------------- properties
\* The vocabulary of the properties: the hierarchy the parent ids stand for,
\* read off a task list without the program's own lookups.

\* The last invocation was cmd and got past loading planner.json.
Ran(cmd) == last.cmd = cmd /\ last.msg # "no meta file"

Ids(tl) == {At(tl, i).id : i \in Positions(tl)}
TaskOf(tl, id) == At(tl, CHOOSE i \in Positions(tl) : At(tl, i).id = id)
ChildIds(tl, id) == {At(tl, i).id : i \in {j \in Positions(tl) : At(tl, j).parent = id}}
IsLeaf(tl, id) == ChildIds(tl, id) = {}

\* The ids on the parent chain of id, id excluded (at most fuel of them).
RECURSIVE AncestorIds(_, _, _)
AncestorIds(tl, id, fuel) ==
    IF fuel = 0 \/ ~HasId(tl, id) \/ TaskOf(tl, id).parent = None THEN {}
    ELSE {TaskOf(tl, id).parent}
            \cup AncestorIds(tl, TaskOf(tl, id).parent, fuel - 1)

Descends(tl, id, a) == a \in AncestorIds(tl, id, Len(tl))

\* Every complete task has all of its direct children complete.
WellFormed(tl) ==
    \A i, j \in Positions(tl) :
        (At(tl, i).complete /\ At(tl, j).parent = At(tl, i).id) => At(tl, j).complete

\* tl with the task of id t marked complete and nothing else changed.
Checked(tl, t) ==
    [j \in 1 .. Len(tl) |->
        IF tl[j].id = t THEN [tl[j] EXCEPT !.complete = TRUE] ELSE tl[j]]

\* tl less the task of id t, the tasks whose parent was t made roots.
Removed(tl, t) ==
    LET kept == SelectSeq(tl, LAMBDA x : x.id # t)
    IN  [j \in 1 .. Len(kept) |->
            IF kept[j].parent = t THEN [kept[j] EXCEPT !.parent = None] ELSE kept[j]]

\* C1: check t on a stored task t with an incomplete direct child is rejected
\* with a failure exit and leaves planner.json as it was; check t on a stored
\* task whose direct children are all complete succeeds and changes
\* planner.json only in t.complete = TRUE.
C1_CompletionGate ==
    (Ran("check") /\ HasId(loaded, last.id)) =>
        IF \E c \in ChildIds(loaded, last.id) : ~TaskOf(loaded, c).complete
        THEN last.how \in {Exit1, Panic} /\ planner_json = loaded
        ELSE /\ last.how = Ok
             /\ last.msg = "Checked off task"
             /\ planner_json = Checked(loaded, last.id)

\* C2: in every reachable store every complete task has all of its direct
\* children complete.
C2_AlwaysWellFormed == WellFormed(planner_json)

\* The add that C2 overlooks: a child added under a task already complete.
AddUnderComplete ==
    /\ Ran("add") /\ last.how = Ok /\ last.parent # None
    /\ TaskOf(loaded, last.parent).complete

\* C2 (amended): every invocation that starts from a store in which every
\* complete task has all direct children complete leaves such a store,
\* except an add --parent-id p whose p is already complete.
C2_WellFormedKept ==
    (WellFormed(loaded) /\ ~AddUnderComplete) => WellFormed(planner_json)

C2_Witness ==
    /\ Ran("check") /\ last.how = Ok /\ last.msg = "Checked off task"
    /\ ChildIds(planner_json, last.id) # {}
    /\ ~TaskOf(loaded, last.id).complete
    /\ TaskOf(planner_json, last.id).complete
    /\ WellFormed(planner_json)

\* C3: after a successful add --parent-id p, every ancestor a of the new task
\* starts no later than each descendant leaf of a that has a start_time and
\* is due no earlier than each descendant leaf of a that has a due_date.
C3_MonotonicWidening ==
    (Ran("add") /\ last.how = Ok /\ last.parent # None) =>
        \A a \in AncestorIds(planner_json, last.id, Len(planner_json)) :
            \A l \in Ids(planner_json) :
                (Descends(planner_json, l, a) /\ IsLeaf(planner_json, l)) =>
                    LET ta == TaskOf(planner_json, a)
                        tleaf == TaskOf(planner_json, l)
                    IN  /\ tleaf.start_time # None =>
                            (ta.start_time # None /\ ta.start_time <= tleaf.start_time)
                        /\ tleaf.due_date # None =>
                            (ta.due_date # None /\ ta.due_date >= tleaf.due_date)

\* C4: every add, rm, check and list invocation terminates, normally or with
\* a failure; none loops for ever.
C4_Terminates == last.how # Hang

\* C5: rm t on a stored task t removes exactly t, makes roots of exactly the
\* tasks whose parent was t, and changes nothing else.
C5_Removal ==
    (Ran("rm") /\ HasId(loaded, last.id)) =>
        /\ last.how = Ok
        /\ planner_json = Removed(loaded, last.id)

\* The positions (0-based) of the nodes of a forest that hold task id.
NodesOf(forest, id) == {i \in Positions(forest) : At(forest, i).task = id}
\* How often node index n is listed among the children of node i.
Listed(forest, i, n) ==
    Cardinality({k \in 1 .. Len(At(forest, i).children) : At(forest, i).children[k] = n})

\* C6: on a task list with pairwise distinct ids whose parent links are
\* acyclic and resolvable, generate_task_tree terminates with a forest whose
\* node 0 is the synthetic root, in which every task id is held by exactly one
\* node, and in which every node but the root is listed once, in the children
\* of the node holding its task's parent (the root for parent None), and in
\* no other child list.
C6_TreePartition ==
    (last.cmd = "tree" /\ DistinctIds(planner_json) /\ Acyclic(planner_json)
        /\ Resolvable(planner_json)) =>
        /\ last.how = Ok
        /\ Len(task_tree) = Len(planner_json) + 1
        /\ At(task_tree, 0).task = None
        /\ \A n \in Positions(task_tree) : n # 0 => At(task_tree, n).task # None
        /\ \A id \in Ids(planner_json) : Cardinality(NodesOf(task_tree, id)) = 1
        /\ \A n \in Positions(task_tree) : n # 0 =>
              LET p == TaskOf(planner_json, At(task_tree, n).task).parent
              IN  \A i \in Positions(task_tree) :
                    Listed(task_tree, i, n) =
                        IF At(task_tree, i).task = p THEN 1 ELSE 0
        /\ \A i \in Positions(task_tree) : Listed(task_tree, i, 0) = 0

\* A full list, ids unlike positions, a grandchild, and a task that comes
\* after its parent in the list (popped first, so it is requeued).
C6_Witness ==
    /\ last.cmd = "tree" /\ last.how = Ok
    /\ DistinctIds(planner_json) /\ Acyclic(planner_json) /\ Resolvable(planner_json)
    /\ Len(planner_json) = MaxTasks
    /\ \E i \in Positions(planner_json) : At(planner_json, i).id # i
    /\ \E i, j \in Positions(planner_json) :
          /\ i < j
          /\ At(planner_json, j).parent = At(planner_json, i).id
          /\ At(planner_json, i).parent # None

\* C7: in every reachable store the task ids are pairwise distinct.
C7_DistinctIds == DistinctIds(planner_json)

\* An add that reused an id freed by rm, below an id still in the store.
C7_Witness ==
    /\ Ran("add") /\ last.how = Ok
    /\ \E id \in Ids(loaded) : last.id < id
    /\ HasId(planner_json, last.id)
    /\ Len(planner_json) = Len(loaded) + 1

\* C8: the id add gives the new task is the smallest non-negative integer
\* that is the id of no task in the store add loaded.
C8_SmallestFreeId ==
    (Ran("add") /\ last.how = Ok) =>
        /\ Len(planner_json) = Len(loaded) + 1
        /\ planner_json[Len(planner_json)].id = last.id
        /\ last.id >= 0
        /\ last.id \notin Ids(loaded)
        /\ \A k \in 0 .. (last.id - 1) : k \in Ids(loaded)

\* add fills the gap between two ids in use.
C8_Witness ==
    /\ Ran("add") /\ last.how = Ok
    /\ last.id > 0
    /\ \E hi \in Ids(loaded) : hi > last.id
    /\ planner_json[Len(planner_json)].id = last.id

\* C9: fit_task_size_to_children(id) run again right after itself leaves every
\* task's start_time and due_date (the whole task list) as the first run left
\* them.
C9_FitIdempotent ==
    last.cmd = "fit" =>
        fit_task_size_to_children(planner_json, last.id).tasks = planner_json

\* A first run that changed the window of a task with a child.
C9_Witness ==
    /\ last.cmd = "fit"
    /\ planner_json # loaded
    /\ HasId(planner_json, last.id)
    /\ ChildIds(planner_json, last.id) # {}
    /\ TaskOf(planner_json, last.id).start_time # None

\* Lines j < k of the output: k is nested directly under j.
NestedUnder(lines, j, k) ==
    /\ j < k
    /\ lines[k].indent = lines[j].indent + 1
    /\ \A m \in (j + 1) .. (k - 1) : lines[m].indent > lines[j].indent

\* C10: list on a non-empty store ends normally having printed every task
\* exactly once, root tasks at the base indent 1, every other task nested
\* directly under its parent one level deeper, and for every forest node the
\* task whose id the node holds.
C10_ListFollowsHierarchy ==
    (Ran("list") /\ Len(planner_json) > 0) =>
        /\ last.how = Ok
        /\ Len(stdout) = Len(planner_json)
        /\ \A id \in Ids(planner_json) :
              Cardinality({k \in 1 .. Len(stdout) : stdout[k].id = id}) = 1
        /\ \A k \in 1 .. Len(stdout) :
              /\ stdout[k].id = stdout[k].node
              /\ LET p == TaskOf(planner_json, stdout[k].id).parent
                 IN  IF p = None THEN stdout[k].indent = 1
                     ELSE \E j \in 1 .. Len(stdout) :
                            stdout[j].id = p /\ NestedUnder(stdout, j, k)

\* C11: add --parent-id p with p the id of no stored task ends with a failure
\* exit and leaves planner.json as it was: no task added, no window changed.
C11_InvalidParentNoWrite ==
    (Ran("add") /\ last.parent # None /\ ~HasId(loaded, last.parent)) =>
        /\ last.how \in {Exit1, Panic}
        /\ last.msg \in {"Invalid parent id!", "bad date"}
        /\ planner_json = loaded

\* The parent id is that of no task although the store holds tasks, and the
\* id is a position of the list the walk would have read.
C11_Witness ==
    /\ Ran("add") /\ last.parent # None /\ ~HasId(loaded, last.parent)
    /\ last.how = Exit1
    /\ last.parent < Len(loaded)
    /\ planner_json = loaded

\* C12: rm t and check t with t the id of no stored task report "Task not
\* found", return success and leave planner.json as it was.
C12_NotFoundIsSoft ==
    ((Ran("rm") \/ Ran("check")) /\ ~HasId(loaded, last.id)) =>
        /\ last.how = Ok
        /\ last.msg = "Task not found"
        /\ planner_json = loaded

\* check of an id that no task of a store with tasks and parent links has.
C12_Witness ==
    /\ Ran("check") /\ ~HasId(loaded, last.id)
    /\ last.how = Ok /\ last.msg = "Task not found"
    /\ \E i \in Positions(loaded) : At(loaded, i).parent # None
    /\ planner_json = loaded

\* The least and the greatest timestamp of the direct children of id, None
\* when no child has one.
ChildTimes(tl, id, field) ==
    {TaskOf(tl, c)[field] : c \in ChildIds(tl, id)} \ {None}
MinOf(S) == IF S = {} THEN None ELSE CHOOSE x \in S : \A y \in S : x <= y
MaxOf(S) == IF S = {} THEN None ELSE CHOOSE x \in S : \A y \in S : x >= y

\* C13: after fit_task_size_to_children(id) on a task with a child, in a list
\* of distinct ids (positions and ids need not agree) with acyclic parents,
\* every task of id's subtree that has a child starts at the least
\* start_time of its direct children and is due at their greatest due_date
\* (None when no child has one); children are computed before their parent.
C13_TransitiveAggregation ==
    (last.cmd = "fit" /\ HasId(planner_json, last.id)
        /\ ChildIds(planner_json, last.id) # {}) =>
        \A t \in Ids(planner_json) :
            ((t = last.id \/ Descends(planner_json, t, last.id))
                /\ ChildIds(planner_json, t) # {}) =>
                /\ TaskOf(planner_json, t).start_time
                     = MinOf(ChildTimes(planner_json, t, "start_time"))
                /\ TaskOf(planner_json, t).due_date
                     = MaxOf(ChildTimes(planner_json, t, "due_date"))

\* C14: the fitting that add --parent-id p triggers changes the start_time
\* and due_date of no task that has no children: every task of the loaded
\* store that is childless after the add keeps both values.
C14_LeavesUntouched ==
    (Ran("add") /\ last.how = Ok /\ last.parent # None) =>
        \A id \in Ids(loaded) :
            IsLeaf(planner_json, id) =>
                /\ TaskOf(planner_json, id).start_time = TaskOf(loaded, id).start_time
                /\ TaskOf(planner_json, id).due_date = TaskOf(loaded, id).due_date

\* C15: in every reachable store each task's parent is None or the id of
\* another task of the store, and the parent links of every task end at a
\* root after finitely many steps: no dangling parent id and no cycle, also
\* after add has reused an id that rm freed.
C15_ParentLinks ==
    /\ Resolvable(planner_json)
    /\ Acyclic(planner_json)
    /\ \A i \in Positions(planner_json) :
          At(planner_json, i).parent # At(planner_json, i).id

\* add --parent-id gave the child an id that rm had freed, below an id still
\* in use, in a store where rm had made a root of the removed task's child.
C15_Witness ==
    /\ Ran("add") /\ last.how = Ok /\ last.parent # None
    /\ \E id \in Ids(loaded) : last.id < id
    /\ HasId(planner_json, last.id)
    /\ TaskOf(planner_json, last.id).parent = last.parent
    /\ HasId(planner_json, last.parent)

\* C18: no invocation turns a complete flag from TRUE to FALSE: every task
\* that is in the store before and after an invocation and was complete is
\* complete afterwards (check of a complete task included), and add, rm and
\* list leave the flag of every such task as it was.
C18_CompletionMonotone ==
    \A id \in Ids(loaded) \cap Ids(planner_json) :
        /\ TaskOf(loaded, id).complete => TaskOf(planner_json, id).complete
        /\ (Ran("add") \/ Ran("rm") \/ Ran("list")) =>
              TaskOf(planner_json, id).complete = TaskOf(loaded, id).complete

\* check of a task that was complete already, and that has a child.
C18_Witness ==
    /\ Ran("check") /\ last.how = Ok /\ last.msg = "Checked off task"
    /\ TaskOf(loaded, last.id).complete
    /\ TaskOf(planner_json, last.id).complete
    /\ ChildIds(loaded, last.id) # {}

\* C17: on a task list (of distinct ids) in which the parent chain of some
\* task holds a cycle or a parent id that no task has, generate_task_tree
\* never terminates: it ends neither normally nor with an error, and a task
\* that no node holds is requeued for ever.
C17_TreeNeverEnds ==
    (last.cmd = "tree"
        /\ ~(Acyclic(planner_json) /\ Resolvable(planner_json))) =>
        /\ last.how = Hang
        /\ \E id \in Ids(planner_json) : NodesOf(task_tree, id) = {}

\* Every parent id is a task's, two tasks are each other's parent and a
\* third task was placed before the loop was left with the two.
C17_Witness ==
    /\ last.cmd = "tree" /\ last.how = Hang
    /\ Resolvable(planner_json) /\ ~Acyclic(planner_json)
    /\ Len(planner_json) = MaxTasks
    /\ Len(task_tree) = 2

\* The smallest id no task of tl has.
FreeId(tl) ==
    CHOOSE n \in 0 .. Len(tl) :
        n \notin Ids(tl) /\ \A k \in 0 .. (n - 1) : k \in Ids(tl)

\* What the command of invocation p makes of the task list tl.
Intended(tl, p) ==
    CASE procs[p].cmd = "add" ->
            Append(tl, Task(FreeId(tl), "a", FALSE, None, None, procs[p].parent))
      [] procs[p].cmd = "rm" -> Removed(tl, procs[p].id)
      [] OTHER -> Checked(tl, procs[p].id)

\* C16: when two invocations have both loaded planner.json before either
\* ended and both wrote, planner.json is in the end the later writer's copy:
\* its command applied to the store both loaded, with nothing of the earlier
\* writer's change; both ended normally, and two adds gave their tasks the
\* same id.
C16_LostUpdate ==
    \A p, q \in Procs :
        (procs[p].turn = 1 /\ procs[q].turn = 2 /\ procs[p].overlap
            /\ procs[p].wrote /\ procs[q].wrote) =>
            /\ procs[q].task_list = procs[p].task_list
            /\ planner_json = Intended(procs[q].task_list, q)
            /\ procs[p].how = Ok /\ procs[q].how = Ok
            /\ (procs[p].cmd = "add" /\ procs[q].cmd = "add") =>
                  procs[p].id = procs[q].id

\* Two adds on a store with tasks: both took the same id and one task came
\* of the two.
C16_Witness ==
    \E p, q \in Procs :
        /\ procs[p].turn = 1 /\ procs[q].turn = 2 /\ procs[p].overlap
        /\ procs[p].wrote /\ procs[q].wrote
        /\ procs[p].cmd = "add" /\ procs[q].cmd = "add"
        /\ procs[p].id = procs[q].id
        /\ procs[p].parent # procs[q].parent
        /\ Len(procs[q].task_list) > 0
        /\ Len(planner_json) = Len(procs[q].task_list) + 1

====
